---- MODULE Spec2Model ----
(***************************************************************************)
(* InsightForce backend (backend/app/main.py): the HTTP handlers that      *)
(* ingest URLs and uploaded files into one on-disk FAISS store, answer     *)
(* questions from it, and reset it.                                        *)
(*                                                                         *)
(* Text is modelled as a sequence of one-character strings, so that        *)
(* str.strip, str.split, str.startswith and json.loads are computed the    *)
(* way Python computes them.  The document loaders, the embedding          *)
(* provider and the language model are external: each is a                 *)
(* nondeterministic choice among the outcomes its interface allows.        *)
(***************************************************************************)
EXTENDS Naturals, Sequences, FiniteSets, TLC

VARIABLES faiss_store, temp_files, resp, call, hist, form, workers

vars == <<faiss_store, temp_files, resp, call, hist, form, workers>>

(***************************************************************************)
(* Bounds                                                                  *)
(***************************************************************************)
MaxUrlLen == 5      \* longest 'urls' form field enumerated by SpecParse
MaxSrcLen == 3      \* longest raw "sources" string the language model returns
MaxUrls == 2        \* longest JSON body list of /process-urls
MaxFiles == 1       \* most uploads in one multipart request
NumWorkers == 2     \* server processes that share the two directories (SpecConc)

(***************************************************************************)
(* Characters and Python string operations                                 *)
(***************************************************************************)
DQ == "\""
NL == "\n"
SP == " "

FormChars == {"[", "]", DQ, ",", SP, "a"}
SourceChars == {NL, SP, "a"}

RECURSIVE StringsUpTo(_, _)
StringsUpTo(chars, n) ==
    IF n = 0 THEN {<<>>}
    ELSE LET shorter == StringsUpTo(chars, n - 1)
         IN  shorter \cup {Append(s, c) : s \in {t \in shorter : Len(t) = n - 1}, c \in chars}

IsSpace(c) == c \in {SP, NL}

\* str.lstrip / str.rstrip / str.strip
RECURSIVE lstrip(_)
lstrip(s) == IF s /= <<>> /\ IsSpace(Head(s)) THEN lstrip(Tail(s)) ELSE s

RECURSIVE rstrip(_)
rstrip(s) ==
    IF s /= <<>> /\ IsSpace(s[Len(s)]) THEN rstrip(SubSeq(s, 1, Len(s) - 1)) ELSE s

strip(s) == rstrip(lstrip(s))

startswith(s, c) == s /= <<>> /\ Head(s) = c

Contains(s, c) == \E i \in 1..Len(s) : s[i] = c

\* str.split(sep) for a one-character separator: every piece, empty ones included
RECURSIVE split(_, _)
split(s, sep) ==
    IF ~Contains(s, sep) THEN <<s>>
    ELSE LET i == CHOOSE k \in 1..Len(s) : s[k] = sep /\ \A j \in 1..(k - 1) : s[j] /= sep
         IN  <<SubSeq(s, 1, i - 1)>> \o split(SubSeq(s, i + 1, Len(s)), sep)

\* [f(x) for x in xs if p(x)] for the two comprehensions the handlers use
RECURSIVE StripNonEmpty(_)
StripNonEmpty(xs) ==
    IF xs = <<>> THEN <<>>
    ELSE IF strip(Head(xs)) /= <<>>
         THEN <<strip(Head(xs))>> \o StripNonEmpty(Tail(xs))
         ELSE StripNonEmpty(Tail(xs))

RECURSIVE KeepNonBlank(_)
KeepNonBlank(xs) ==
    IF xs = <<>> THEN <<>>
    ELSE IF strip(Head(xs)) /= <<>>
         THEN <<Head(xs)>> \o KeepNonBlank(Tail(xs))
         ELSE KeepNonBlank(Tail(xs))

(***************************************************************************)
(* json.loads, for the JSON values the alphabet can spell: strings and     *)
(* (nested) arrays.  A parse result is                                     *)
(*   [ok, next, isStr, str, elems, allStr]                                 *)
(* where elems holds the top-level elements of an array (a nested array    *)
(* element is kept as the empty string and clears allStr).                 *)
(***************************************************************************)
JsonFail == [ok |-> FALSE, next |-> 0, isStr |-> FALSE, str |-> <<>>,
             elems |-> <<>>, allStr |-> FALSE]

RECURSIVE SkipWs(_, _)
SkipWs(s, i) == IF i <= Len(s) /\ IsSpace(s[i]) THEN SkipWs(s, i + 1) ELSE i

\* s[i] is the opening quote
JsonString(s, i) ==
    IF \E j \in (i + 1)..Len(s) : s[j] = DQ
    THEN LET j == CHOOSE k \in (i + 1)..Len(s) :
                      s[k] = DQ /\ \A m \in (i + 1)..(k - 1) : s[m] /= DQ
         IN  [ok |-> TRUE, next |-> j + 1, isStr |-> TRUE, str |-> SubSeq(s, i + 1, j - 1),
              elems |-> <<>>, allStr |-> FALSE]
    ELSE JsonFail

RECURSIVE JsonValue(_, _)
RECURSIVE JsonElements(_, _, _, _)

\* the elements of an array from position i on, after `elems` were read
JsonElements(s, i, elems, allStr) ==
    LET v == JsonValue(s, i)
    IN  IF ~v.ok THEN JsonFail
        ELSE LET k == SkipWs(s, v.next)
                 es == Append(elems, IF v.isStr THEN v.str ELSE <<>>)
                 as == allStr /\ v.isStr
             IN  IF k > Len(s) THEN JsonFail
                 ELSE IF s[k] = "]"
                      THEN [ok |-> TRUE, next |-> k + 1, isStr |-> FALSE, str |-> <<>>,
                            elems |-> es, allStr |-> as]
                 ELSE IF s[k] = ","
                      THEN JsonElements(s, SkipWs(s, k + 1), es, as)
                 ELSE JsonFail

JsonValue(s, i) ==
    IF i > Len(s) THEN JsonFail
    ELSE IF s[i] = DQ THEN JsonString(s, i)
    ELSE IF s[i] = "["
         THEN LET j == SkipWs(s, i + 1)
              IN  IF j <= Len(s) /\ s[j] = "]"
                  THEN [ok |-> TRUE, next |-> j + 1, isStr |-> FALSE, str |-> <<>>,
                        elems |-> <<>>, allStr |-> TRUE]
                  ELSE JsonElements(s, j, <<>>, TRUE)
    ELSE JsonFail

\* json.loads(s): one value, surrounded by whitespace only
json_loads(s) ==
    LET v == JsonValue(s, SkipWs(s, 1))
    IN  IF v.ok /\ SkipWs(s, v.next) > Len(s) THEN v ELSE JsonFail

(***************************************************************************)
(* process_sources, lines 206-224: the 'urls' form field to url_list.      *)
(* None is the absent field.  The result is                                *)
(*   [error, url_list, allStr]                                             *)
(* error: json.loads raised JSONDecodeError; allStr: every element of      *)
(* url_list is a str.                                                      *)
(***************************************************************************)
None == <<"None">>

parse_urls(urls) ==
    IF urls = None \/ urls = <<>> THEN [error |-> FALSE, url_list |-> <<>>, allStr |-> TRUE]
    ELSE LET u == strip(urls)
         IN  IF startswith(u, "[")
             THEN LET v == json_loads(u)
                  IN  IF v.ok THEN [error |-> FALSE, url_list |-> v.elems, allStr |-> v.allStr]
                      ELSE [error |-> TRUE, url_list |-> <<>>, allStr |-> TRUE]
             ELSE IF Contains(u, ",")
                  THEN [error |-> FALSE, url_list |-> StripNonEmpty(split(u, ",")),
                        allStr |-> TRUE]
             ELSE [error |-> FALSE, url_list |-> IF u /= <<>> THEN <<u>> ELSE <<>>,
                   allStr |-> TRUE]

(***************************************************************************)
(* Configuration and the data the handlers move around                     *)
(***************************************************************************)
FAISS_PATH == "faiss_store"
TEMP_DIR == "temp_files"

chunk_size == 1000
chunk_overlap == 200

\* the URLs the requests are made of, and the text length of a fetched page
UrlA == <<"a">>
UrlB == <<"b">>
PageSize == 2 * chunk_size

\* an upload is [filename, content]; content is the length of the file's text
\* (a part without a filename, a text file, and a CSV file with no rows)
Upload(filename, content) == [filename |-> filename, content |-> content]
Uploads == {Upload("", 0), Upload("f.txt", chunk_size + chunk_overlap), Upload("g.csv", 0)}

Extension(filename) ==
    CASE filename = "f.txt" -> ".txt"
      [] filename = "g.csv" -> ".csv"
      [] filename = "p.pdf" -> ".pdf"
      [] OTHER -> ""

RECURSIVE SeqsUpTo(_, _)
SeqsUpTo(S, n) ==
    IF n = 0 THEN {<<>>}
    ELSE LET shorter == SeqsUpTo(S, n - 1)
         IN  shorter \cup {Append(s, x) : s \in {t \in shorter : Len(t) = n - 1}, x \in S}

Range(s) == {s[i] : i \in 1..Len(s)}

\* What the external collaborators do during one request: which URLs can be
\* fetched, and whether a document loader or the embedding provider raises.
Envs ==
    {[loadable |-> L, fail |-> "none"] : L \in {{}, {UrlA}, {UrlA, UrlB}}}
    \cup {[loadable |-> {UrlA, UrlB}, fail |-> f] : f \in {"loader", "embed"}}

(***************************************************************************)
(* The two directories.  A file of the store is absent, opened for         *)
(* writing and not yet written ("partial"), or complete.                   *)
(***************************************************************************)
AbsentFile == [st |-> "absent", data |-> {}]
CompleteFile(chunks) == [st |-> "complete", data |-> chunks]
PartialFile == [st |-> "partial", data |-> {}]

NoStore == [exists |-> FALSE, faiss |-> AbsentFile, pkl |-> AbsentFile]
SavedStore(chunks) ==
    [exists |-> TRUE, faiss |-> CompleteFile(chunks), pkl |-> CompleteFile(chunks)]

EmptyTemp == [exists |-> TRUE, files |-> <<>>]

\* os.path.join(TEMP_DIR, filename)
Path(filename) == <<TEMP_DIR, filename>>

\* save_uploaded_file, lines 62-67: [raised, temp, path]
save_uploaded_file(temp, file) ==
    IF ~temp.exists
    THEN [raised |-> TRUE, temp |-> temp, path |-> Path(file.filename)]
    ELSE [raised |-> FALSE,
          temp |-> [temp EXCEPT !.files =
                      [n \in DOMAIN temp.files \cup {file.filename} |->
                          IF n = file.filename THEN file.content ELSE temp.files[n]]],
          path |-> Path(file.filename)]

\* the loop "for file in files: if file and file.filename: save; append"
\* (lines 169-173 and 230-233): [raised, temp, paths]
RECURSIVE save_all(_, _, _)
save_all(temp, files, paths) ==
    IF files = <<>> THEN [raised |-> FALSE, temp |-> temp, paths |-> paths]
    ELSE IF Head(files).filename = "" THEN save_all(temp, Tail(files), paths)
    ELSE LET r == save_uploaded_file(temp, Head(files))
         IN  IF r.raised THEN [raised |-> TRUE, temp |-> r.temp, paths |-> paths]
             ELSE save_all(r.temp, Tail(files), Append(paths, r.path))

(***************************************************************************)
(* load_documents, lines 70-95                                             *)
(***************************************************************************)
Doc(source, length) == [source |-> source, length |-> length]

RECURSIVE url_documents(_, _)
url_documents(valid_urls, env) ==
    IF valid_urls = <<>> THEN <<>>
    ELSE (IF strip(Head(valid_urls)) \in env.loadable
          THEN <<Doc(Head(valid_urls), PageSize)>> ELSE <<>>)
         \o url_documents(Tail(valid_urls), env)

\* the documents one file loads to: TextLoader gives one document whatever the
\* text, the other loaders one per page, row or element
file_documents(path, content) ==
    IF Extension(path[2]) = ".txt" THEN <<Doc(path, content)>>
    ELSE IF content = 0 THEN <<>> ELSE <<Doc(path, content)>>

RECURSIVE files_documents(_, _)
files_documents(paths, temp) ==
    IF paths = <<>> THEN <<>>
    ELSE (IF temp.exists /\ Head(paths)[2] \in DOMAIN temp.files
          THEN file_documents(Head(paths), temp.files[Head(paths)[2]])
          ELSE <<>>)
         \o files_documents(Tail(paths), temp)

\* [raised, docs]; allStr is false when an element of urls is not a str, and
\* url.strip() raises AttributeError
load_documents(urls, allStr, uploaded_files, temp, env) ==
    LET valid_urls == KeepNonBlank(urls)
        present == \E i \in 1..Len(uploaded_files) :
                      temp.exists /\ uploaded_files[i][2] \in DOMAIN temp.files
    IN  IF ~allStr THEN [raised |-> TRUE, docs |-> <<>>]
        ELSE IF env.fail = "loader" /\ (valid_urls /= <<>> \/ present)
             THEN [raised |-> TRUE, docs |-> <<>>]
        ELSE [raised |-> FALSE,
              docs |-> url_documents(valid_urls, env) \o files_documents(uploaded_files, temp)]

(***************************************************************************)
(* build_vectorstore, lines 98-110                                         *)
(***************************************************************************)
Min(a, b) == IF a < b THEN a ELSE b

\* RecursiveCharacterTextSplitter(chunk_size, chunk_overlap): windows of
\* chunk_size characters, each starting chunk_overlap before the end of the last
split_document(doc) ==
    LET step == chunk_size - chunk_overlap
        starts == {k * step : k \in {j \in 0..(doc.length \div step) :
                                       j = 0 \/ j * step + chunk_overlap < doc.length}}
    IN  IF doc.length = 0 THEN {}
        ELSE {[source |-> doc.source, from |-> b, to |-> Min(b + chunk_size, doc.length)] :
                b \in starts}

split_documents(documents) == UNION {split_document(documents[i]) : i \in 1..Len(documents)}

\* (for C5: the new chunks are added to the store that is there)
save_local_merge(store, chunks) == SavedStore(store.faiss.data \cup chunks)

\* vectorstore.save_local(FAISS_PATH), as one step
save_local(store, chunks) == SavedStore(chunks)

\* (for C2: the store directory is made before the chunks are embedded)
build_vectorstore_mkdir_first(documents, store, env) ==
    LET docs == split_documents(documents)
    IN  IF env.fail = "embed" \/ docs = {}
        THEN [raised |-> TRUE, store |-> [store EXCEPT !.exists = TRUE], chunks |-> docs]
        ELSE [raised |-> FALSE, store |-> save_local(store, docs), chunks |-> docs]

\* (for C10: the old store is removed before the chunks are embedded)
build_vectorstore_clear_first(documents, store, env) ==
    LET docs == split_documents(documents)
    IN  IF env.fail = "embed" \/ docs = {}
        THEN [raised |-> TRUE, store |-> NoStore, chunks |-> docs]
        ELSE [raised |-> FALSE, store |-> save_local(store, docs), chunks |-> docs]

\* [raised, store, chunks]: the embedding provider may raise, and FAISS raises on
\* an empty list of chunks; both happen before save_local
build_vectorstore(documents, store, env) ==
    LET docs == split_documents(documents)
    IN  IF env.fail = "embed" \/ docs = {}
        THEN [raised |-> TRUE, store |-> store, chunks |-> docs]
        ELSE [raised |-> FALSE, store |-> save_local(store, docs), chunks |-> docs]

\* FAISS.load_local, lines 113-114: [raised, data, torn].  It raises unless both
\* files of the store are complete; torn: the two files are of different saves
load_vectorstore(store) ==
    IF store.faiss.st /= "complete" \/ store.pkl.st /= "complete"
    THEN [raised |-> TRUE, data |-> {}, torn |-> FALSE]
    ELSE [raised |-> FALSE, data |-> store.faiss.data,
          torn |-> store.faiss.data /= store.pkl.data]

(***************************************************************************)
(* Responses, and what a request did on its way (for the claims)           *)
(***************************************************************************)
\* detail is the message, as the sequence of the strings it is put together from
Response(op, status, detail) ==
    [op |-> op, status |-> status, detail |-> detail, documents_loaded |-> 0,
     urls_processed |-> 0, files_processed |-> 0, sources |-> <<>>]

IngestSuccess(op, message, docs, url_list, paths) ==
    [op |-> op, status |-> 200, detail |-> message, documents_loaded |-> Len(docs),
     urls_processed |-> Len(url_list), files_processed |-> Len(paths), sources |-> <<>>]

\* empty: the handler found no URL and no file in the request; json_error:
\* json.loads raised; loading and urls: load_documents was called, with these
\* urls; built: "no", "failed" (build_vectorstore raised) or "saved"; named and
\* chunks: the sources a successful ingest was given and the chunks it saved;
\* loaded: load_vectorstore was called; llm: the chain was called; read and
\* torn: the chunks the query answered from, and whether the two files it read
\* them from were of different saves
NoCall == [empty |-> FALSE, json_error |-> FALSE, loading |-> FALSE, urls |-> <<>>,
           built |-> "no", named |-> {}, chunks |-> {},
           loaded |-> FALSE, llm |-> FALSE, read |-> {}, torn |-> FALSE]
Loading(urls) == [NoCall EXCEPT !.loading = TRUE, !.urls = urls]

Outcome(store, temp, r, c) == [store |-> store, temp |-> temp, resp |-> r, call |-> c]

\* str(e) of an HTTPException is "<status>: <detail>"
StatusStr(status) == IF status = 400 THEN "400" ELSE "500"
HttpStr(status, detail) == <<StatusStr(status), ": ">> \o detail

\* process_urls and process_files, lines 154-157 and 193-196: an HTTPException
\* is re-raised as it is, anything else becomes a 500
reraise_http(op, exc) ==
    IF exc.kind = "http" THEN Response(op, exc.status, exc.detail)
    ELSE Response(op, 500, exc.detail)

\* (for C7: no clause for JSONDecodeError)
sources_except_generic(op, exc) ==
    IF exc.kind = "http" THEN Response(op, 500, HttpStr(exc.status, exc.detail))
    ELSE Response(op, 500, exc.detail)

\* process_sources, lines 255-258: JSONDecodeError becomes a 400; every other
\* exception, HTTPException included, becomes a 500 that carries str(e)
sources_except(op, exc) ==
    IF exc.kind = "json"
    THEN Response(op, 400, <<"URLs must be valid JSON array format or comma-separated string">>)
    ELSE IF exc.kind = "http" THEN Response(op, 500, HttpStr(exc.status, exc.detail))
    ELSE Response(op, 500, exc.detail)

HTTPException(status, detail) == [kind |-> "http", status |-> status, detail |-> detail]
Exception(detail) == [kind |-> "other", status |-> 0, detail |-> detail]
JSONDecodeError == [kind |-> "json", status |-> 0, detail |-> <<"JSONDecodeError">>]

(***************************************************************************)
(* POST /process-urls, lines 128-157                                       *)
(***************************************************************************)
process_urls(urls, store, temp, env) ==
    LET op == "process_urls"
        url_list == StripNonEmpty(urls)
        ld == load_documents(url_list, TRUE, <<>>, temp, env)
        bv == build_vectorstore(ld.docs, store, env)
    IN  IF url_list = <<>>
        THEN Outcome(store, temp,
                     reraise_http(op, HTTPException(400, <<"Please provide at least one URL">>)),
                     [NoCall EXCEPT !.empty = TRUE])
        ELSE IF ld.raised
        THEN Outcome(store, temp, reraise_http(op, Exception(<<"loader error">>)), Loading(url_list))
        ELSE IF ld.docs = <<>>
        THEN Outcome(store, temp,
                     reraise_http(op, HTTPException(400, <<"No documents loaded from provided URLs">>)),
                     Loading(url_list))
        ELSE IF bv.raised
        THEN Outcome(bv.store, temp, reraise_http(op, Exception(<<"embedding error">>)),
                     [Loading(url_list) EXCEPT !.built = "failed"])
        ELSE Outcome(bv.store, temp,
                     IngestSuccess(op, <<"URLs processed successfully">>, ld.docs, url_list, <<>>),
                     [Loading(url_list) EXCEPT !.built = "saved", !.chunks = bv.chunks,
                                    !.named = Range(url_list)])

(***************************************************************************)
(* POST /process-files, lines 159-196                                      *)
(***************************************************************************)
process_files(files, store, temp, env) ==
    LET op == "process_files"
        sv == save_all(temp, files, <<>>)
        ld == load_documents(<<>>, TRUE, sv.paths, sv.temp, env)
        bv == build_vectorstore(ld.docs, store, env)
    IN  IF files = <<>>
        THEN Outcome(store, temp,
                     reraise_http(op, HTTPException(400, <<"Please upload at least one file">>)),
                     [NoCall EXCEPT !.empty = TRUE])
        ELSE IF sv.raised
        THEN Outcome(store, sv.temp, reraise_http(op, Exception(<<"file error">>)), NoCall)
        ELSE IF sv.paths = <<>>
        THEN Outcome(store, sv.temp,
                     reraise_http(op, HTTPException(400, <<"No valid files provided">>)),
                     [NoCall EXCEPT !.empty = TRUE])
        ELSE IF ld.raised
        THEN Outcome(store, sv.temp, reraise_http(op, Exception(<<"loader error">>)), Loading(<<>>))
        ELSE IF ld.docs = <<>>
        THEN Outcome(store, sv.temp,
                     reraise_http(op, HTTPException(400, <<"No documents loaded from provided files">>)),
                     Loading(<<>>))
        ELSE IF bv.raised
        THEN Outcome(bv.store, sv.temp, reraise_http(op, Exception(<<"embedding error">>)),
                     [Loading(<<>>) EXCEPT !.built = "failed"])
        ELSE Outcome(bv.store, sv.temp,
                     IngestSuccess(op, <<"Files processed successfully">>, ld.docs, <<>>, sv.paths),
                     [Loading(<<>>) EXCEPT !.built = "saved", !.chunks = bv.chunks,
                                    !.named = Range(sv.paths)])

(***************************************************************************)
(* POST /process-sources, lines 198-258.  files is <<>> for an absent or   *)
(* empty 'files' field.                                                    *)
(***************************************************************************)
process_sources(urls, files, store, temp, env) ==
    LET op == "process_sources"
        pu == parse_urls(urls)
        sv == save_all(temp, files, <<>>)
        ld == load_documents(pu.url_list, pu.allStr, sv.paths, sv.temp, env)
        bv == build_vectorstore(ld.docs, store, env)
    IN  IF pu.error
        THEN Outcome(store, temp, sources_except(op, JSONDecodeError),
                     [NoCall EXCEPT !.json_error = TRUE])
        ELSE IF sv.raised
        THEN Outcome(store, sv.temp, sources_except(op, Exception(<<"file error">>)), NoCall)
        ELSE IF pu.url_list = <<>> /\ sv.paths = <<>>
        THEN Outcome(store, sv.temp,
                     sources_except(op, HTTPException(400, <<"Please provide at least one URL or file">>)),
                     [NoCall EXCEPT !.empty = TRUE])
        ELSE IF ld.raised
        THEN Outcome(store, sv.temp, sources_except(op, Exception(<<"loader error">>)), Loading(pu.url_list))
        ELSE IF ld.docs = <<>>
        THEN Outcome(store, sv.temp,
                     sources_except(op, HTTPException(400, <<"No documents loaded from provided sources">>)),
                     Loading(pu.url_list))
        ELSE IF bv.raised
        THEN Outcome(bv.store, sv.temp, sources_except(op, Exception(<<"embedding error">>)),
                     [Loading(pu.url_list) EXCEPT !.built = "failed"])
        ELSE Outcome(bv.store, sv.temp,
                     IngestSuccess(op, <<"Sources processed successfully">>, ld.docs, pu.url_list,
                                   sv.paths),
                     [Loading(pu.url_list) EXCEPT !.built = "saved", !.chunks = bv.chunks,
                                    !.named = Range(pu.url_list) \cup Range(sv.paths)])

(***************************************************************************)
(* POST /query, lines 261-291.  llm is what the chain does: it raises, or  *)
(* returns the raw "sources" string (None when the field is missing).      *)
(* llm.fail: "init" (ChatOpenAI(...) raises), "chain" (the chain raises)   *)
(* or "none".  The question is handed to the chain and decides nothing     *)
(* else, so it is part of llm.                                             *)
(***************************************************************************)
\* (for C8: the pieces are filtered and not stripped)
parse_sources_unstripped(raw) ==
    LET sources == IF raw /= None /\ raw /= <<>> THEN split(raw, NL) ELSE <<>>
    IN  KeepNonBlank(sources)

\* lines 280-281
parse_sources(raw) ==
    LET sources == IF raw /= None /\ raw /= <<>> THEN split(raw, NL) ELSE <<>>
    IN  StripNonEmpty(sources)

query_documents(store, temp, llm) ==
    LET op == "query"
        vs == load_vectorstore(store)
        c1 == [NoCall EXCEPT !.loaded = TRUE]
    IN  IF ~store.exists
        THEN Outcome(store, temp,
                     reraise_http(op, HTTPException(400, <<"Please process sources first">>)), NoCall)
        ELSE IF llm.fail = "init"
        THEN Outcome(store, temp, reraise_http(op, Exception(<<"provider error">>)), NoCall)
        ELSE IF vs.raised
        THEN Outcome(store, temp, reraise_http(op, Exception(<<"index error">>)), c1)
        ELSE IF llm.fail = "chain"
        THEN Outcome(store, temp, reraise_http(op, Exception(<<"provider error">>)),
                     [c1 EXCEPT !.llm = TRUE, !.read = vs.data, !.torn = vs.torn])
        ELSE Outcome(store, temp,
                     [Response(op, 200, <<"success">>) EXCEPT !.sources = parse_sources(llm.sources)],
                     [c1 EXCEPT !.llm = TRUE, !.read = vs.data, !.torn = vs.torn])

(***************************************************************************)
(* POST /reset, lines 297-313, and GET /, lines 120-126                    *)
(***************************************************************************)
\* (for C3: the store is left where it is)
rmtree_store_kept(store) == store

\* shutil.rmtree of a directory that exists
rmtree_store(store) == IF store.exists THEN NoStore ELSE store
rmtree_temp(temp) == IF temp.exists THEN [exists |-> FALSE, files |-> <<>>] ELSE temp
\* os.makedirs(TEMP_DIR, exist_ok=True)
makedirs(temp) == [temp EXCEPT !.exists = TRUE]

\* (for C4: rmtree without the os.path.exists check raises on a missing store)
reset_unchecked(store, temp) ==
    IF ~store.exists
    THEN Outcome(store, temp, Response("reset", 500, <<"No such file or directory">>), NoCall)
    ELSE Outcome(NoStore, makedirs(rmtree_temp(temp)),
                 Response("reset", 200, <<"Reset completed">>), NoCall)

reset(store, temp) ==
    Outcome(rmtree_store(store), makedirs(rmtree_temp(temp)),
            Response("reset", 200, <<"Reset completed">>), NoCall)

root(store, temp) == Outcome(store, temp, Response("root", 200, <<"InsightForce">>), NoCall)

(***************************************************************************)
(* The requests                                                            *)
(***************************************************************************)
\* elements of the JSON body of /process-urls
UrlStrs == {<<>>, UrlA, <<SP, "b">>}

\* values of the 'urls' form field of /process-sources: absent, empty, blank,
\* bare, comma-separated, JSON arrays, and text that starts with [ and is no JSON
UrlForms ==
    {None, <<SP>>,
     <<SP, "a", SP>>,
     <<"a", ",", SP, "b">>,
     <<"[", "]">>, <<"[", DQ, "a", DQ, ",", DQ, "b", DQ, "]">>,
     <<"[", DQ, SP, "a", DQ, "]">>, <<"[", DQ, DQ, "]">>, <<"[", "[", "]", "]">>,
     <<"[", DQ, "a", DQ, ",", "]">>}

\* the JSON bodies of /process-urls and the 'files' parts of a multipart request
UrlBodies == SeqsUpTo(UrlStrs, MaxUrls)
FileLists == SeqsUpTo(Uploads, MaxFiles)

LlmOutcomes ==
    {[fail |-> f, sources |-> None] : f \in {"init", "chain"}}
    \cup {[fail |-> "none", sources |-> r] :
             r \in {None} \cup StringsUpTo(SourceChars, MaxSrcLen)}

IdleForm == [pc |-> "idle", urls |-> None]
NoWorkers == <<>>

\* hist is a history variable, what the claims need of the past: indexed, an ingest has succeeded;
\* after_reset, the request before the last one was a Reset that completed;
\* replaced, the last request saved its store over one that shared no chunk
\* with it.
NoHist == [indexed |-> FALSE, after_reset |-> FALSE, replaced |-> FALSE]

Record(o) ==
    [indexed |-> hist.indexed \/ o.call.built = "saved",
     after_reset |-> resp.op = "reset" /\ resp.status = 200,
     replaced |-> /\ o.call.built = "saved"
                  /\ faiss_store.exists
                  /\ faiss_store.faiss.data \cap o.call.chunks = {}]

Apply(o) ==
    /\ faiss_store' = o.store
    /\ temp_files' = o.temp
    /\ resp' = o.resp
    /\ call' = o.call
    /\ hist' = Record(o)

\* line 33: the module creates TEMP_DIR when it is imported
Init ==
    /\ faiss_store = NoStore
    /\ temp_files = EmptyTemp
    /\ resp = Response("start", 200, <<>>)
    /\ call = NoCall
    /\ hist = NoHist
    /\ form = IdleForm
    /\ workers = NoWorkers

Root == Apply(root(faiss_store, temp_files)) /\ UNCHANGED <<form, workers>>

ProcessUrls ==
    \E urls \in UrlBodies, env \in Envs :
        Apply(process_urls(urls, faiss_store, temp_files, env)) /\ UNCHANGED <<form, workers>>

ProcessFiles ==
    \E files \in FileLists, env \in Envs :
        Apply(process_files(files, faiss_store, temp_files, env)) /\ UNCHANGED <<form, workers>>

ProcessSources ==
    \E urls \in UrlForms, files \in FileLists, env \in Envs :
        Apply(process_sources(urls, files, faiss_store, temp_files, env))
        /\ UNCHANGED <<form, workers>>

Query ==
    \E llm \in LlmOutcomes :
        Apply(query_documents(faiss_store, temp_files, llm)) /\ UNCHANGED <<form, workers>>

Reset == Apply(reset(faiss_store, temp_files)) /\ UNCHANGED <<form, workers>>

\* uvicorn.run(app): one event loop, and no handler awaits, so requests are
\* served one at a time
Next == Root \/ ProcessUrls \/ ProcessFiles \/ ProcessSources \/ Query \/ Reset

Spec == Init /\ [][Next]_vars

(***************************************************************************)
(* SpecParse: one /process-sources request on the fresh service, for every *)
(* text of the 'urls' form field up to MaxUrlLen characters                *)
(***************************************************************************)
InitParse ==
    /\ faiss_store = NoStore
    /\ temp_files = EmptyTemp
    /\ resp = Response("start", 200, <<>>)
    /\ call = NoCall
    /\ hist = NoHist
    /\ form \in {[pc |-> "field", urls |-> u] :
                   u \in {None} \cup StringsUpTo(FormChars, MaxUrlLen)}
    /\ workers = NoWorkers

SubmitForm ==
    /\ form.pc = "field"
    /\ \E env \in Envs :
          Apply(process_sources(form.urls, <<>>, faiss_store, temp_files, env))
    /\ form' = [form EXCEPT !.pc = "done"]
    /\ UNCHANGED workers

NextParse == SubmitForm

SpecParse == InitParse /\ [][NextParse]_vars

(***************************************************************************)
(* SpecConc: NumWorkers server processes (uvicorn workers, or the second   *)
(* front-end) serve /process-urls and /query over the same faiss_store.    *)
(* Within a process the handlers do not interleave; between processes      *)
(* every file operation of save_local (line 110: make the directory, then  *)
(* open and write index.faiss, then open and write index.pkl) and of       *)
(* load_local (line 114: read index.faiss, then index.pkl) is a step.      *)
(***************************************************************************)
Workers == 1..NumWorkers

\* out: the outcome of the ingest under way; faiss and pkl: the two files as the
\* query under way read them
Idle == [pc |-> "idle", out |-> Outcome(NoStore, EmptyTemp, Response("start", 200, <<>>), NoCall),
         faiss |-> AbsentFile, pkl |-> AbsentFile]

SavePcs == {"mkdir", "open_faiss", "write_faiss", "open_pkl", "write_pkl"}

\* the requests the workers serve: the JSON bodies of /process-urls, and what
\* the language model does for /query
ConcUrls == {<<UrlA>>, <<UrlB>>}
ConcEnvs == {e \in Envs : e.loadable = {UrlA, UrlB} /\ e.fail /= "loader"}
ConcLlm == {o \in LlmOutcomes : o.sources = None}

InitConc ==
    /\ faiss_store = NoStore
    /\ temp_files = EmptyTemp
    /\ resp = Response("start", 200, <<>>)
    /\ call = NoCall
    /\ hist = NoHist
    /\ form = IdleForm
    /\ workers = [w \in Workers |-> Idle]

At(w, pc) == workers[w].pc = pc
Goto(w, pc) == workers' = [workers EXCEPT ![w].pc = pc]

\* the response leaves the process
Respond(o) == resp' = o.resp /\ call' = o.call /\ UNCHANGED hist

\* process_urls up to save_local: a request that fails answers at once, one
\* that reaches save_local goes on file by file
BeginIngest(w) ==
    /\ At(w, "idle")
    /\ \E urls \in ConcUrls, env \in ConcEnvs :
          LET o == process_urls(urls, faiss_store, temp_files, env)
          IN  IF o.call.built = "saved"
              THEN /\ workers' = [workers EXCEPT ![w] = [Idle EXCEPT !.pc = "mkdir", !.out = o]]
                   /\ UNCHANGED <<resp, call, hist>>
              ELSE Respond(o) /\ UNCHANGED workers
    /\ UNCHANGED <<faiss_store, temp_files, form>>

\* path.mkdir(exist_ok=True, parents=True)
Mkdir(w) ==
    /\ At(w, "mkdir")
    /\ faiss_store' = [faiss_store EXCEPT !.exists = TRUE]
    /\ Goto(w, "open_faiss")
    /\ UNCHANGED <<temp_files, resp, call, hist, form>>

OpenFaiss(w) ==
    /\ At(w, "open_faiss")
    /\ faiss_store' = [faiss_store EXCEPT !.faiss = PartialFile]
    /\ Goto(w, "write_faiss")
    /\ UNCHANGED <<temp_files, resp, call, hist, form>>

WriteFaiss(w) ==
    /\ At(w, "write_faiss")
    /\ faiss_store' = [faiss_store EXCEPT !.faiss = CompleteFile(workers[w].out.call.chunks)]
    /\ Goto(w, "open_pkl")
    /\ UNCHANGED <<temp_files, resp, call, hist, form>>

OpenPkl(w) ==
    /\ At(w, "open_pkl")
    /\ faiss_store' = [faiss_store EXCEPT !.pkl = PartialFile]
    /\ Goto(w, "write_pkl")
    /\ UNCHANGED <<temp_files, resp, call, hist, form>>

WritePkl(w) ==
    /\ At(w, "write_pkl")
    /\ faiss_store' = [faiss_store EXCEPT !.pkl = CompleteFile(workers[w].out.call.chunks)]
    /\ Goto(w, "respond")
    /\ UNCHANGED <<temp_files, resp, call, hist, form>>

EndIngest(w) ==
    /\ At(w, "respond")
    /\ Respond(workers[w].out)
    /\ workers' = [workers EXCEPT ![w] = Idle]
    /\ UNCHANGED <<faiss_store, temp_files, form>>

\* query_documents up to load_vectorstore: lines 267-270
BeginQuery(w) ==
    /\ At(w, "idle")
    /\ \E llm \in ConcLlm :
          IF ~faiss_store.exists \/ llm.fail = "init"
          THEN Respond(query_documents(faiss_store, temp_files, llm)) /\ UNCHANGED workers
          ELSE Goto(w, "read_faiss") /\ UNCHANGED <<resp, call, hist>>
    /\ UNCHANGED <<faiss_store, temp_files, form>>

\* (for C9: the load waits while another worker is saving)
can_load_locked(w) ==
    At(w, "read_faiss") /\ \A v \in Workers \ {w} : workers[v].pc \notin SavePcs

\* load_vectorstore takes no lock: where the worker is is all that enables it
can_load(w) == At(w, "read_faiss")

ReadFaiss(w) ==
    /\ can_load(w)
    /\ workers' = [workers EXCEPT ![w].faiss = faiss_store.faiss, ![w].pc = "read_pkl"]
    /\ UNCHANGED <<faiss_store, temp_files, resp, call, hist, form>>

ReadPkl(w) ==
    /\ At(w, "read_pkl")
    /\ workers' = [workers EXCEPT ![w].pkl = faiss_store.pkl, ![w].pc = "answer"]
    /\ UNCHANGED <<faiss_store, temp_files, resp, call, hist, form>>

\* lines 271-287, on the two files as this worker read them
EndQuery(w) ==
    /\ At(w, "answer")
    /\ \E llm \in {o \in ConcLlm : o.fail /= "init"} :
          Respond(query_documents([exists |-> TRUE, faiss |-> workers[w].faiss,
                                   pkl |-> workers[w].pkl],
                                  temp_files, llm))
    /\ workers' = [workers EXCEPT ![w] = Idle]
    /\ UNCHANGED <<faiss_store, temp_files, form>>

\* the steps of a request that is under way
Continue(w) ==
    \/ Mkdir(w) \/ OpenFaiss(w) \/ WriteFaiss(w) \/ OpenPkl(w) \/ WritePkl(w) \/ EndIngest(w)
    \/ ReadFaiss(w) \/ ReadPkl(w) \/ EndQuery(w)

NextConc == \E w \in Workers : BeginIngest(w) \/ BeginQuery(w) \/ Continue(w)

SpecConc == InitConc /\ [][NextConc]_vars

(***************************************************************************)
(* Claims                                                                  *)
(***************************************************************************)
IngestOps == {"process_urls", "process_files", "process_sources"}

Trimmed(s) == strip(s) = s /\ s /= <<>>

NoDuplicates(xs) == \A i, j \in 1..Len(xs) : xs[i] = xs[j] => i = j

\* C1: an ingest request in which the handler finds no URL and no file is
\* answered 400 and never reaches build_vectorstore, at each of the three
\* entry points.
C1_EmptyRejected ==
    (resp.op \in IngestOps /\ call.empty) => (resp.status = 400 /\ call.built = "no")

\* C2: as long as no ingest has succeeded there is no store on disk, and a
\* Query is answered 400 "Please process sources first" without loading the
\* index or calling the language model.
C2_QueryBeforeIndexing ==
    ~hist.indexed =>
        /\ ~faiss_store.exists
        /\ resp.op = "query" =>
              /\ resp.status = 400
              /\ resp.detail = <<"Please process sources first">>
              /\ ~call.loaded
              /\ ~call.llm

\* a Query answered before any ingest succeeded, after an ingest that failed
\* once its upload was saved
C2_Witness ==
    /\ ~hist.indexed
    /\ resp.op = "query"
    /\ resp.status = 400
    /\ DOMAIN temp_files.files /= {}

\* C3: the Query that follows a completed Reset is answered 400 "Please
\* process sources first", whatever came before the Reset.
C3_QueryAfterReset ==
    (resp.op = "query" /\ hist.after_reset) =>
        /\ resp.status = 400
        /\ resp.detail = <<"Please process sources first">>

\* a Query right after a Reset that removed an index
C3_Witness == resp.op = "query" /\ hist.after_reset /\ hist.indexed

\* C4: a Reset that follows a Reset gives the same success response and leaves
\* the state the first one left: no index, an empty scratch directory.
C4_ResetIdempotent ==
    [][(resp.op = "reset" /\ resp'.op = "reset") =>
          /\ resp.status = 200
          /\ resp' = resp
          /\ faiss_store' = faiss_store /\ faiss_store' = NoStore
          /\ temp_files' = temp_files /\ temp_files' = EmptyTemp]_vars

\* the second of two Resets in a row, after an ingest had succeeded
C4_Witness == resp.op = "reset" /\ hist.after_reset /\ hist.indexed

\* C5: the store is one consistent save, and after a successful ingest it holds
\* exactly the chunks of that request's documents, all of them from sources
\* the request named.
C5_FullReplacement ==
    /\ faiss_store.exists =>
          /\ faiss_store.faiss.st = "complete"
          /\ faiss_store.pkl = faiss_store.faiss
    /\ (resp.op \in IngestOps /\ resp.status = 200) =>
          /\ call.built = "saved"
          /\ call.chunks /= {}
          /\ faiss_store = SavedStore(call.chunks)
          /\ \A c \in faiss_store.faiss.data : c.source \in call.named

\* a successful ingest over a store that held chunks of other sources only
C5_Witness == resp.op \in IngestOps /\ resp.status = 200 /\ hist.replaced

\* C6: for a well-formed 'urls' field, every element of the list handed to
\* load_documents and counted in urls_processed is a trimmed, non-empty string.
WellFormed(urls) == LET pu == parse_urls(urls) IN ~pu.error /\ pu.allStr

C6_UrlsNormalized ==
    (form.pc = "done" /\ WellFormed(form.urls) /\ call.loading) =>
        /\ \A i \in 1..Len(call.urls) : Trimmed(call.urls[i])
        /\ resp.status = 200 => resp.urls_processed = Len(call.urls)

C10_FailedIngestKeepsStore ==
    [][(resp'.op \in IngestOps /\ resp'.status /= 200) => faiss_store' = faiss_store]_vars

\* the embedding provider failed while the service held an index
C10_Witness ==
    /\ resp.op \in IngestOps
    /\ resp.status = 500
    /\ call.built = "failed"
    /\ faiss_store.exists

\* C9: nothing serialises access to the store: a request under way is never
\* made to wait for another worker, so a Query that passed the exists check
\* can read the files while a concurrent ingest is writing them.
C9_NoLocking ==
    \A w \in Workers : ~At(w, "idle") => ENABLED Continue(w)

\* a Query that passed the exists check has been answered, with success, from
\* a store that an ingest still under way had written only in part: index.faiss
\* of the new save and index.pkl of the old one
C9_Witness ==
    /\ resp.op = "query"
    /\ resp.status = 200
    /\ call.loaded
    /\ call.torn
    /\ \E w \in Workers : workers[w].pc \in SavePcs

====
